---- MODULE Spec2Model ----
(***************************************************************************)
(* PNR text extraction and schedule-change detection                       *)
(* (streamlit_cloud_apps/agent_support_router.py).                         *)
(*                                                                         *)
(* A reservation text is modelled by what the regular expressions of the   *)
(* parser can tell apart: the GDS keyword families that occur in it, the   *)
(* ISSUED:/DT date tokens, and its lines, each line being the token        *)
(* cluster a segment grammar anchors on.  Optional values (Python None)    *)
(* are sequences of length at most one: <<>> is None, <<x>> is x.          *)
(***************************************************************************)
EXTENDS Integers, Sequences, FiniteSets, TLC

VARIABLES pc, text, out, arg, ret, store

vars == <<pc, text, out, arg, ret, store>>

None == <<>>
Some(x) == <<x>>
IsSet(o) == o # <<>>

\* a storage that holds no file: a function from keys with an empty domain
NoFiles == <<>>
Val(o) == o[1]

Max2(a, b) == IF a >= b THEN a ELSE b

-----------------------------------------------------------------------------
(* Bounds of the model *)

MaxLines == 3
MaxSegs == 4
MaxDigits == 5
MaxWords == 2

-----------------------------------------------------------------------------
(* Time tokens.  A token is its leading digit string and what follows it:  *)
(* "A" or "P" (12-hour), "" (24-hour), "+1" (24-hour, next day), "X" (any  *)
(* other trailing text).                                                   *)

Tok(ds, sfx) == [ds |-> ds, sfx |-> sfx]

\* int() of a digit string; int("") is not called by the code
RECURSIVE DigitsToInt(_)
DigitsToInt(ds) ==
  IF Len(ds) = 0 THEN 0
  ELSE 10 * DigitsToInt(SubSeq(ds, 1, Len(ds) - 1)) + ds[Len(ds)]

\* s[:-2] and s[-2:] of a digit string
AllButLast2(ds) == IF Len(ds) <= 2 THEN <<>> ELSE SubSeq(ds, 1, Len(ds) - 2)
Last2(ds) == IF Len(ds) <= 2 THEN ds ELSE SubSeq(ds, Len(ds) - 1, Len(ds))

\* str.zfill(4)
RECURSIVE ZFill4(_)
ZFill4(ds) == IF Len(ds) >= 4 THEN ds ELSE ZFill4(<<0>> \o ds)

\* a 12-hour pattern that takes one to four digits
Match12hLoose(t) == Len(t.ds) \in 1..4 /\ t.sfx \in {"A", "P"}

\* re.match(r"(\d{3,4})([AP])$", t)
Match12h(t) == Len(t.ds) \in {3, 4} /\ t.sfx \in {"A", "P"}

\* re.match(r"^([01]\d|2[0-3])([0-5]\d)(?:\+1)?$", t)
Match24h(t) ==
  /\ Len(t.ds) = 4
  /\ t.sfx \in {"", "+1"}
  /\ (t.ds[1] \in {0, 1} \/ (t.ds[1] = 2 /\ t.ds[2] <= 3))
  /\ t.ds[3] <= 5

\* a 12-hour rule that forgets midnight
Hour12NoMidnight(h, ap) == IF ap = "P" /\ h # 12 THEN h + 12 ELSE h

\* the 12-hour rule shared by both normalizers
Hour12(h, ap) ==
  IF ap = "P" /\ h # 12 THEN h + 12
  ELSE IF ap = "A" /\ h = 12 THEN 0
  ELSE h

\* _to_minutes_any(tok)
To_minutes_any(t) ==
  IF Len(t.ds) = 0 /\ t.sfx = "" THEN None
  ELSE IF Match12h(t)
    THEN Some(Hour12(DigitsToInt(AllButLast2(t.ds)), t.sfx) * 60
              + DigitsToInt(Last2(t.ds)))
  ELSE IF Match24h(t)
    THEN Some(DigitsToInt(SubSeq(t.ds, 1, 2)) * 60 + DigitsToInt(SubSeq(t.ds, 3, 4)))
  ELSE None

\* the hour read from the first two digits, the digits not filled to four
Time_token_to_minutes_unfilled(t) ==
  IF Len(t.ds) = 0 /\ t.sfx = "" THEN None
  ELSE IF Len(t.ds) \in 1..4 /\ t.sfx \in {"A", "P"}
    THEN Some(Hour12(DigitsToInt(SubSeq(t.ds, 1, IF Len(t.ds) < 2 THEN Len(t.ds) ELSE 2)),
                     t.sfx) * 60
              + DigitsToInt(SubSeq(t.ds, 3, Len(t.ds))))
  ELSE None

\* _time_token_to_minutes(t): re.match(r"(\d{1,4})([AP])", t), not anchored
\* at the end; of a longer digit string the regex cannot match, because the
\* character after the fourth digit is a digit, not A or P
Time_token_to_minutes(t) ==
  IF Len(t.ds) = 0 /\ t.sfx = "" THEN None
  ELSE IF Len(t.ds) \in 1..4 /\ t.sfx \in {"A", "P"}
    THEN LET raw == ZFill4(t.ds)
         IN Some(Hour12(DigitsToInt(AllButLast2(raw)), t.sfx) * 60
                 + DigitsToInt(Last2(raw)))
  ELSE None

-----------------------------------------------------------------------------
(* Status codes: letters (and slashes) followed by digits. *)

Stat(base, nd) == [base |-> base, nd |-> nd]

\* CXL = re.compile(r"^(HX|UN|UC|US|NO)\d*$", re.I)
CXL(st) == st.base \in {"HX", "UN", "UC", "US", "NO"}

\* an active class that also takes SS
OKWithSS(st) == st.base \in {"HK", "OK", "HS", "TKOK", "SS"}

\* OK = re.compile(r"^(HK|OK|HS|TKOK)\d*$", re.I)
OK(st) == st.base \in {"HK", "OK", "HS", "TKOK"}

-----------------------------------------------------------------------------
(* Lines.  prefix: what the line starts with ("num" a row number, "AS",    *)
(* "SC"); gap: what separates the flight number from the date ("single"    *)
(* one blank, "double" two or more blanks, "leg" a leg letter between      *)
(* blanks); joined: origin and destination written without a blank.        *)

Line(prefix, flt, gap, date, orig, dest, joined, stat, dep, arr) ==
  [prefix |-> prefix, flt |-> flt, gap |-> gap, date |-> date, orig |-> orig,
   dest |-> dest, joined |-> joined, stat |-> stat, dep |-> dep, arr |-> arr]

\* (\d{3,4}[AP]) followed by blank or end of line
Tok12hShape(t) == Len(t.ds) \in {3, 4} /\ t.sfx \in {"A", "P"}

\* (\d{4}(?:\+1)?) followed by blank or end of line
Tok24hShape(t) == Len(t.ds) = 4 /\ t.sfx \in {"", "+1"}

\* ([A-Z/]{2,6}\d?)
StatLong(st) == Len(st.base) \in 2..6 /\ st.nd \in {0, 1}

\* ([A-Z]{2}\d?)
StatShort(st) == Len(st.base) = 2 /\ st.nd \in {0, 1}

\* the pattern of extract_sabre_segments:
\* ^(?:\s*\d+|AS)\s+CAR\s+FLT\s+DATE\s+ORGDST\s+STAT\s+DEP\s+ARR
MatchSabreRow(l) ==
  /\ l.prefix \in {"num", "AS"}
  /\ l.gap \in {"single", "double"}
  /\ l.joined
  /\ StatLong(l.stat)
  /\ Tok12hShape(l.dep) /\ Tok12hShape(l.arr)

\* SEG_ROW_24H: ^\s*\d+\s+CAR\s+FLT\s+[A-Z]?\s+DATE\s+ORG\s*DST\s+STAT\s+DEP\s+ARR
MatchRow24h(l) ==
  /\ l.prefix = "num"
  /\ l.gap \in {"double", "leg"}
  /\ StatShort(l.stat)
  /\ Tok24hShape(l.dep) /\ Tok24hShape(l.arr)

\* SEG_ROW_12H: as SEG_ROW_24H with ([A-Z/]{2,6}\d?) and (\d{3,4}[AP])
MatchRow12h(l) ==
  /\ l.prefix = "num"
  /\ l.gap \in {"double", "leg"}
  /\ StatLong(l.stat)
  /\ Tok12hShape(l.dep) /\ Tok12hShape(l.arr)

\* the SC pattern of extract_sabre_schedule_change:
\* ^\s*SC\s+CAR\s+FLT\s+DATE\s+ORGDST\s+[A-Z/]{2,6}\d?\s+DEP\s+ARR
MatchScRow(l) ==
  /\ l.prefix = "SC"
  /\ l.gap \in {"single", "double"}
  /\ l.joined
  /\ StatLong(l.stat)
  /\ Tok12hShape(l.dep) /\ Tok12hShape(l.arr)

\* the dict a grammar builds of a line (car and flt are one field here)
SegDict(l) ==
  [flt |-> l.flt, date |-> l.date, orig |-> l.orig, dest |-> l.dest,
   stat |-> l.stat, dep |-> l.dep, arr |-> l.arr]

WithIdx(d, i) ==
  [idx |-> i, flt |-> d.flt, date |-> d.date, orig |-> d.orig, dest |-> d.dest,
   stat |-> d.stat, dep |-> d.dep, arr |-> d.arr]

\* extract_sabre_segments(text): pat.findall gives the matching lines in
\* text order; dicts without an "idx"
Extract_sabre_segments(lines) ==
  LET m == SelectSeq(lines, MatchSabreRow)
  IN [i \in 1..Len(m) |-> SegDict(m[i])]

\* extract_generic_segments(text): the 24-hour matches, then the 12-hour
\* matches, numbered from 0 in that order
Extract_generic_segments(lines) ==
  LET m24 == SelectSeq(lines, MatchRow24h)
      m12 == SelectSeq(lines, MatchRow12h)
      all == m24 \o m12
  IN [i \in 1..Len(all) |-> WithIdx(SegDict(all[i]), i - 1)]

-----------------------------------------------------------------------------
(* Schedule change *)

\* a key that forgets the route
KeyOfDateOnly(s) == <<s.date, "", "">>

KeyOf(s) == <<s.date, s.orig, s.dest>>

\* a wrap correction that is left out
WrapNone(d) == d

\* a wrap correction applied to every negative delta
WrapBelowZero(d) == IF d < 0 THEN d + 1440 ELSE d

\* midnight-wrap correction: if delta < -720: delta += 1440
Wrap(d) == IF d < -720 THEN d + 1440 ELSE d

\* every way a Python set of keys may be iterated
KeyOrders(K) ==
  {o \in [1..Cardinality(K) -> K] : \A i, j \in DOMAIN o : i # j => o[i] # o[j]}

RECURSIVE Flatten(_)
Flatten(ss) == IF ss = <<>> THEN <<>> ELSE Head(ss) \o Flatten(Tail(ss))

\* a candidate that reads an unknown token as midnight
CandidateNullAsZero(old, new) ==
  LET Z(tok) == IF IsSet(To_minutes_any(tok)) THEN Val(To_minutes_any(tok)) ELSE 0
      dep_delta == IF Z(new.dep) - Z(old.dep) < -720 THEN Z(new.dep) - Z(old.dep) + 1440
                   ELSE Z(new.dep) - Z(old.dep)
      arr_delta == IF Z(new.arr) - Z(old.arr) < -720 THEN Z(new.arr) - Z(old.arr) + 1440
                   ELSE Z(new.arr) - Z(old.arr)
  IN <<[date |-> old.date, orig |-> old.orig, dest |-> old.dest,
        old_dep |-> old.dep, old_arr |-> old.arr,
        new_dep |-> new.dep, new_arr |-> new.arr,
        delta_dep_min |-> Some(dep_delta),
        delta_arr_min |-> Some(arr_delta),
        max_delta_min |-> Some(Max2(dep_delta, arr_delta)),
        method |-> "pair_old_new_segments"]>>

\* the candidate of one old x new pair, or nothing when a token is unknown
Candidate(old, new) ==
  LET od == To_minutes_any(old.dep)
      nd == To_minutes_any(new.dep)
      oa == To_minutes_any(old.arr)
      na == To_minutes_any(new.arr)
  IN IF None \in {od, nd, oa, na} THEN <<>>
     ELSE LET dep_delta == Wrap(Val(nd) - Val(od))
              arr_delta == Wrap(Val(na) - Val(oa))
          IN <<[date |-> old.date, orig |-> old.orig, dest |-> old.dest,
                old_dep |-> old.dep, old_arr |-> old.arr,
                new_dep |-> new.dep, new_arr |-> new.arr,
                delta_dep_min |-> Some(dep_delta),
                delta_arr_min |-> Some(arr_delta),
                max_delta_min |-> Some(Max2(dep_delta, arr_delta)),
                method |-> "pair_old_new_segments"]>>

\* a first-match rule: the first candidate is never replaced
KeepFirst(best, cands) ==
  IF best # None THEN best
  ELSE IF cands = <<>> THEN None
  ELSE Some(Head(cands))

\* if not best or cand["max_delta_min"] > best["max_delta_min"]: best = cand
RECURSIVE KeepBest(_, _)
KeepBest(best, cands) ==
  IF cands = <<>> THEN best
  ELSE LET cand == Head(cands)
       IN KeepBest(IF best = None \/ Val(cand.max_delta_min) > Val(Val(best).max_delta_min)
                     THEN Some(cand) ELSE best,
                   Tail(cands))

HasKey(s) == s.date # "" /\ s.orig # "" /\ s.dest # ""

\* key_to_old[key], key_to_new[key]: the segments of a key in list order
OldsOf(segs, key) == SelectSeq(segs, LAMBDA s : HasKey(s) /\ KeyOf(s) = key /\ CXL(s.stat))
NewsOf(segs, key) ==
  SelectSeq(segs, LAMBDA s : HasKey(s) /\ KeyOf(s) = key /\ ~CXL(s.stat) /\ OK(s.stat))

\* set(key_to_old) & set(key_to_new)
CommonKeys(segs) ==
  {KeyOf(segs[i]) : i \in {j \in DOMAIN segs : HasKey(segs[j]) /\ CXL(segs[j].stat)}}
  \cap
  {KeyOf(segs[i]) : i \in {j \in DOMAIN segs :
                             HasKey(segs[j]) /\ ~CXL(segs[j].stat) /\ OK(segs[j].stat)}}

\* the candidates in the order the three nested loops meet them, the keys
\* being visited in the order ko
CandidatesIn(segs, ko) ==
  Flatten([k \in DOMAIN ko |->
    LET olds == OldsOf(segs, ko[k])
        news == NewsOf(segs, ko[k])
    IN Flatten([i \in DOMAIN olds |->
         Flatten([j \in DOMAIN news |-> Candidate(olds[i], news[j])])])])

\* compute_schedule_change_from_segments(segs), the key set iterated as ko
Compute_schedule_change_from_segments(segs, ko) ==
  KeepBest(None, CandidatesIn(segs, ko))

\* extract_sabre_schedule_change(text)
Extract_sabre_schedule_change(lines) ==
  LET scs == SelectSeq(lines, MatchScRow)
  IN IF scs = <<>> THEN None
     ELSE
       LET sc == Head(scs)
           segs == Extract_sabre_segments(lines)
           same == SelectSeq(segs, LAMBDA s : s.date = sc.date /\ s.orig = sc.orig
                                                /\ s.dest = sc.dest)
       IN IF same = <<>>
            THEN Some([date |-> sc.date, orig |-> sc.orig, dest |-> sc.dest,
                       old_dep |-> sc.dep, old_arr |-> sc.arr])
          ELSE
            LET new == Head(same)
                old_dep_m == Time_token_to_minutes(sc.dep)
                old_arr_m == Time_token_to_minutes(sc.arr)
                new_dep_m == Time_token_to_minutes(new.dep)
                new_arr_m == Time_token_to_minutes(new.arr)
                dep_delta == IF IsSet(new_dep_m) /\ IsSet(old_dep_m)
                               THEN Some(Wrap(Val(new_dep_m) - Val(old_dep_m))) ELSE None
                arr_delta == IF IsSet(new_arr_m) /\ IsSet(old_arr_m)
                               THEN Some(Wrap(Val(new_arr_m) - Val(old_arr_m))) ELSE None
                max_delta == IF IsSet(dep_delta) /\ IsSet(arr_delta)
                               THEN Some(Max2(Val(dep_delta), Val(arr_delta)))
                             ELSE IF IsSet(dep_delta) THEN dep_delta
                             ELSE arr_delta
            IN Some([date |-> sc.date, orig |-> sc.orig, dest |-> sc.dest,
                     old_dep |-> sc.dep, old_arr |-> sc.arr,
                     new_dep |-> new.dep, new_arr |-> new.arr,
                     delta_dep_min |-> dep_delta, delta_arr_min |-> arr_delta,
                     max_delta_min |-> max_delta,
                     method |-> "sabre_sc_line"])

\* compute_layover_minutes(segments)
Compute_layover_minutes(segments) ==
  IF Len(segments) < 2 THEN None
  ELSE LET a == To_minutes_any(segments[1].arr)
           d == To_minutes_any(segments[2].dep)
       IN IF a = None \/ d = None THEN None
          ELSE LET lay == Val(d) - Val(a)
               IN Some(IF lay < 0 THEN lay + 1440 ELSE lay)

\* dict.get(name): None for a missing key
Get(dct, name) == IF name \in DOMAIN dct THEN dct[name] ELSE None

-----------------------------------------------------------------------------
(* Dates *)

\* MONTH_MAP
MONTH_MAP ==
  [mon \in {"JAN", "FEB", "MAR", "APR", "MAY", "JUN",
            "JUL", "AUG", "SEP", "OCT", "NOV", "DEC"} |->
     CASE mon = "JAN" -> 1 [] mon = "FEB" -> 2 [] mon = "MAR" -> 3
       [] mon = "APR" -> 4 [] mon = "MAY" -> 5 [] mon = "JUN" -> 6
       [] mon = "JUL" -> 7 [] mon = "AUG" -> 8 [] mon = "SEP" -> 9
       [] mon = "OCT" -> 10 [] mon = "NOV" -> 11 [] mon = "DEC" -> 12]

IsLeap(y) == y % 4 = 0 /\ (y % 100 # 0 \/ y % 400 = 0)

DaysInMonth(y, m) ==
  IF m = 2 THEN (IF IsLeap(y) THEN 29 ELSE 28)
  ELSE IF m \in {4, 6, 9, 11} THEN 30 ELSE 31

\* the dates datetime(year, month, day) accepts; any other raises ValueError
ValidDate(y, m, d) ==
  /\ y \in 1..9999
  /\ m \in 1..12
  /\ d >= 1 /\ d <= DaysInMonth(y, m)

RECURSIVE DaysBeforeMonth(_, _)
DaysBeforeMonth(y, m) ==
  IF m = 1 THEN 0 ELSE DaysBeforeMonth(y, m - 1) + DaysInMonth(y, m - 1)

\* proleptic Gregorian ordinal of a date (datetime.toordinal)
Ordinal(y, m, d) ==
  (y - 1) * 365 + (y - 1) \div 4 - (y - 1) \div 100 + (y - 1) \div 400
  + DaysBeforeMonth(y, m) + d

\* an issue-date token \d{1,2}[A-Z]{3}\d{2,4}: day digits, month letters,
\* year digits and how many year digits there are
DateTok(d, mon, y, ylen) == [d |-> d, mon |-> mon, y |-> y, ylen |-> ylen]

\* _parse_issued_date_token(tok)
Parse_issued_date_token(tok) ==
  LET year == IF tok.ylen = 4 THEN tok.y ELSE 2000 + tok.y
  IN IF tok.mon \notin DOMAIN MONTH_MAP THEN None
     ELSE IF ~ValidDate(year, MONTH_MAP[tok.mon], tok.d) THEN None
     ELSE Some([y |-> year, m |-> MONTH_MAP[tok.mon], d |-> tok.d])

\* the DT token taken when the ISSUED token is not a date
Extract_ticket_issue_date_fallback(t) ==
  LET first == IF IsSet(t.issued) THEN t.issued ELSE t.dt
      m == IF IsSet(t.issued) /\ IsSet(t.dt) /\ Parse_issued_date_token(Val(t.issued)) = None
             THEN t.dt ELSE first
  IN IF m = None THEN [dt |-> None, raw |-> None]
     ELSE [dt |-> Parse_issued_date_token(Val(m)), raw |-> m]

\* extract_ticket_issue_date(text): the ISSUED token, else the DT token
Extract_ticket_issue_date(t) ==
  LET m == IF IsSet(t.issued) THEN t.issued ELSE t.dt
  IN IF m = None THEN [dt |-> None, raw |-> None]
     ELSE [dt |-> Parse_issued_date_token(Val(m)), raw |-> m]

-----------------------------------------------------------------------------
(* Dialect *)

GDS_SABRE_HINTS == {"WETR*", "PCC:", "/DC", "PLT", "FCI"}
GDS_AMADEUS_HINTS == {"TST/", "FA PAX", "NONEND", "INVOL", "FE PAX"}
GDS_TRAVELPORT_HINTS == {"WAIVER:", "ENDORSEMENT:", "WORLDSPAN", "GALILEO", "APOLLO"}

\* the Amadeus hints looked at before the Sabre hints
Detect_gds_amadeus_first(t) ==
  IF t.kw \cap GDS_AMADEUS_HINTS # {} THEN "amadeus"
  ELSE IF t.kw \cap GDS_SABRE_HINTS # {} THEN "sabre"
  ELSE IF t.kw \cap GDS_TRAVELPORT_HINTS # {} THEN "travelport"
  ELSE IF t.waiver THEN "sabre"
  ELSE IF "NONEND" \in t.kw \/ t.rf THEN "amadeus"
  ELSE "unknown"

\* detect_gds(text); t.kw: the hint keywords that occur in the upper-cased
\* text, t.waiver: a /DCxx*xxxx/E waiver occurs, t.rf: an RF-xxx code occurs
Detect_gds(t) ==
  IF t.kw \cap GDS_SABRE_HINTS # {} THEN "sabre"
  ELSE IF t.kw \cap GDS_AMADEUS_HINTS # {} THEN "amadeus"
  ELSE IF t.kw \cap GDS_TRAVELPORT_HINTS # {} THEN "travelport"
  ELSE IF t.waiver THEN "sabre"
  ELSE IF "NONEND" \in t.kw \/ t.rf THEN "amadeus"
  ELSE "unknown"

-----------------------------------------------------------------------------
(* parse_pnr_text *)

\* the segments and the schedule change of the dialect branch
ParseSegments(t, gds) ==
  IF gds = "sabre" THEN Extract_sabre_segments(t.lines)
  ELSE Extract_generic_segments(t.lines)

\* sc = extract_sabre_schedule_change(text) or compute_...(segs)   (sabre)
\* sc = compute_schedule_change_from_segments(segs)                (others)
ParseScheduleChange(t, gds, segs, ko) ==
  IF gds = "sabre" /\ IsSet(Extract_sabre_schedule_change(t.lines))
    THEN Extract_sabre_schedule_change(t.lines)
  ELSE Compute_schedule_change_from_segments(segs, ko)

\* a threshold that excludes exactly three hours
Eligible3hStrict(minutes) == IsSet(minutes) /\ Val(minutes) > 180

\* out["inv_ref_eligibility_minutes"] is not None and ... >= 180
Eligible3h(minutes) == IsSet(minutes) /\ Val(minutes) >= 180

\* issued_dt.replace(year=issued_dt.year+1) raises ValueError
ReplaceYearRaises(dt) == ~ValidDate(dt.y + 1, dt.m, dt.d)

\* parse_pnr_text raises instead of returning
ParseRaises(t) ==
  LET issued == Extract_ticket_issue_date(t)
  IN IsSet(issued.dt) /\ ReplaceYearRaises(Val(issued.dt))

\* a reading of datetime.now(): the date, and whether midnight has passed
ClockLE(a, b) ==
  \/ Ordinal(a.y, a.m, a.d) < Ordinal(b.y, b.m, b.d)
  \/ Ordinal(a.y, a.m, a.d) = Ordinal(b.y, b.m, b.d) /\ (a.late => b.late)

\* (datetime.now() - issued_dt).days: the floor of the difference in days
DaysSince(now, dt) == Ordinal(now.y, now.m, now.d) - Ordinal(dt.y, dt.m, dt.d)

\* the difference of the dates, the time of day of now forgotten
DaysUntilExpiryByDate(now, dt) ==
  Ordinal(dt.y + 1, dt.m, dt.d) - Ordinal(now.y, now.m, now.d)

\* (issued_dt.replace(year=issued_dt.year+1) - datetime.now()).days
DaysUntilExpiry(now, dt) ==
  Ordinal(dt.y + 1, dt.m, dt.d) - Ordinal(now.y, now.m, now.d)
  - (IF now.late THEN 1 ELSE 0)

\* the dict parse_pnr_text returns; now1, now2: the two readings of the
\* clock, ko: the iteration order of the key set
ParseResult(t, now1, now2, ko) ==
  LET gds == Detect_gds(t)
      issued == Extract_ticket_issue_date(t)
      has == IsSet(issued.dt)
      segs == ParseSegments(t, gds)
      sc == ParseScheduleChange(t, gds, segs, ko)
      minutes == IF IsSet(sc) THEN Get(Val(sc), "max_delta_min") ELSE None
  IN [gds |-> gds,
      issue_date_raw |-> IF has THEN issued.raw ELSE None,
      issue_date_iso |-> IF has THEN issued.dt ELSE None,
      time_since_issue_days |->
        IF has THEN Some(DaysSince(now1, Val(issued.dt))) ELSE None,
      time_until_expiration_days |->
        IF has THEN Some(Max2(DaysUntilExpiry(now2, Val(issued.dt)), 0)) ELSE None,
      schedule_change |-> sc,
      layover_minutes |-> Compute_layover_minutes(segs),
      segments |-> segs,
      inv_ref_eligibility_minutes |-> minutes,
      inv_ref_eligibility_3h |-> Eligible3h(minutes)]

-----------------------------------------------------------------------------
(* Inputs *)

T(a, b, c, d, sfx) == Tok(<<a, b, c, d>>, sfx)

SegLine(gap, orig, dest, joined, stat, dep, arr) ==
  Line("num", "AA100", gap, "10JAN", orig, dest, joined, stat, dep, arr)

HX1 == Stat("HX", 1)
HK1 == Stat("HK", 1)

Lines ==
  { Line("SC", "AA100", "single", "10JAN", "JFK", "LHR", TRUE, HX1,
         T(0,8,0,0,"A"), T(1,0,0,0,"A")),
    SegLine("single", "JFK", "LHR", TRUE, HX1, T(0,8,0,0,"A"), T(1,0,0,0,"A")),
    SegLine("single", "JFK", "LHR", TRUE, HK1, T(1,1,0,0,"A"), T(0,1,0,0,"P")),
    SegLine("double", "JFK", "LHR", TRUE, HK1, T(1,1,5,9,"P"), T(9,9,9,9,"A")),
    SegLine("leg", "JFK", "LHR", TRUE, HX1, T(0,8,0,0,""), T(2,0,0,0,"")),
    SegLine("leg", "JFK", "LHR", TRUE, HK1, T(1,4,0,0,""), T(0,2,0,0,"+1")),
    SegLine("leg", "JFK", "LHR", FALSE, HK1, T(2,5,0,0,""), T(0,8,0,0,"")),
    SegLine("double", "JFK", "LHR", FALSE, HK1, T(0,8,0,0,""), T(0,8,0,0,"")),
    SegLine("leg", "LHR", "CDG", TRUE, HK1, T(1,4,0,0,""), T(1,6,0,0,"")),
    SegLine("leg", "JFK", "LHR", TRUE, Stat("SS", 1), T(0,9,0,0,""), T(2,1,0,0,"")),
    SegLine("leg", "JFK", "LHR", TRUE, Stat("HK", 2), T(1,0,0,0,""), T(2,2,0,0,"")) }

Headers ==
  { [kw |-> {}, waiver |-> FALSE, rf |-> FALSE],
    [kw |-> {"PCC:"}, waiver |-> FALSE, rf |-> FALSE],
    [kw |-> {"/DC"}, waiver |-> TRUE, rf |-> FALSE],
    [kw |-> {"TST/", "WORLDSPAN"}, waiver |-> FALSE, rf |-> FALSE],
    [kw |-> {"WORLDSPAN"}, waiver |-> FALSE, rf |-> FALSE],
    [kw |-> {}, waiver |-> FALSE, rf |-> TRUE] }

IssueInputs ==
  { [issued |-> None, dt |-> None],
    [issued |-> Some(DateTok(10, "JAN", 24, 2)), dt |-> None],
    [issued |-> Some(DateTok(29, "FEB", 24, 2)), dt |-> None],
    [issued |-> Some(DateTok(31, "FEB", 24, 2)), dt |-> Some(DateTok(5, "MAR", 23, 2))],
    [issued |-> None, dt |-> Some(DateTok(5, "MAR", 2025, 4))],
    [issued |-> Some(DateTok(31, "DEC", 9999, 4)), dt |-> None],
    [issued |-> Some(DateTok(10, "XYZ", 24, 2)), dt |-> None],
    [issued |-> Some(DateTok(5, "MAR", 23, 2)), dt |-> None] }

Clock ==
  { [y |-> 2025, m |-> 1, d |-> 9, late |-> TRUE],
    [y |-> 2025, m |-> 1, d |-> 10, late |-> FALSE] }

SeqsUpTo(S, n) == UNION {[1..k -> S] : k \in 0..n}

Texts ==
  { [kw |-> h.kw, waiver |-> h.waiver, rf |-> h.rf,
     issued |-> i.issued, dt |-> i.dt, lines |-> ls] :
      h \in Headers, i \in IssueInputs, ls \in SeqsUpTo(Lines, MaxLines) }

NoText == [kw |-> {}, waiver |-> FALSE, rf |-> FALSE, issued |-> None, dt |-> None,
           lines |-> <<>>]

-----------------------------------------------------------------------------
(* Specification of parse_pnr_text: a text is given, the call returns a    *)
(* dict or raises.                                                         *)

Init ==
  /\ pc = "call"
  /\ text \in Texts
  /\ out = None
  /\ arg = None
  /\ ret = None
  /\ store = NoFiles

Parse ==
  /\ pc = "call"
  /\ IF ParseRaises(text)
       THEN /\ pc' = "raised"
            /\ out' = None
       ELSE /\ pc' = "returned"
            /\ \E now1, now2 \in Clock :
                 /\ ClockLE(now1, now2)
                 /\ \E ko \in KeyOrders(CommonKeys(ParseSegments(text, Detect_gds(text)))) :
                      out' = Some(ParseResult(text, now1, now2, ko))
  /\ UNCHANGED <<text, arg, ret, store>>

Next == Parse

Spec == Init /\ [][Next]_vars

-----------------------------------------------------------------------------
(* Specification of two calls of parse_pnr_text on one text.  The function *)
(* has no clock parameter: each call reads datetime.now(), and the clock   *)
(* does not run backwards between the calls (arg keeps the last reading).  *)

InitTwice ==
  /\ pc = "call"
  /\ text \in Texts
  /\ out = None
  /\ arg = None
  /\ ret = None
  /\ store = NoFiles

ParseFirst ==
  /\ pc = "call"
  /\ IF ParseRaises(text)
       THEN /\ pc' = "raised"
            /\ out' = None
            /\ arg' = arg
       ELSE /\ pc' = "first"
            /\ \E now1, now2 \in Clock :
                 /\ ClockLE(now1, now2)
                 /\ arg' = Some(now2)
                 /\ \E ko \in KeyOrders(CommonKeys(ParseSegments(text, Detect_gds(text)))) :
                      out' = Some(ParseResult(text, now1, now2, ko))
  /\ UNCHANGED <<text, ret, store>>

ParseSecond ==
  /\ pc = "first"
  /\ pc' = "second"
  /\ \E now1, now2 \in Clock :
       /\ ClockLE(Val(arg), now1) /\ ClockLE(now1, now2)
       /\ arg' = Some(now2)
       /\ \E ko \in KeyOrders(CommonKeys(ParseSegments(text, Detect_gds(text)))) :
            ret' = Some(ParseResult(text, now1, now2, ko))
  /\ UNCHANGED <<text, out, store>>

NextTwice == ParseFirst \/ ParseSecond

SpecTwice == InitTwice /\ [][NextTwice]_vars

-----------------------------------------------------------------------------
(* Specification of compute_schedule_change_from_segments and of          *)
(* compute_layover_minutes: a list of segment dicts is given, the call     *)
(* returns the kept candidate, or the layover, or None.                    *)

Seg(date, orig, dest, stat, dep, arr) ==
  [flt |-> "AA100", date |-> date, orig |-> orig, dest |-> dest,
   stat |-> stat, dep |-> dep, arr |-> arr]

SegDicts ==
  { Seg("10JAN", "JFK", "LHR", HX1, T(0,8,0,0,""), T(2,0,0,0,"")),
    Seg("10JAN", "JFK", "LHR", HK1, T(1,4,0,0,""), T(0,2,0,0,"+1")),
    Seg("11JAN", "LHR", "CDG", HX1, T(0,8,0,0,""), T(2,0,0,0,"")),
    Seg("11JAN", "LHR", "CDG", HK1, T(1,4,0,0,""), T(0,2,0,0,"+1")),
    Seg("10JAN", "JFK", "LHR", HK1, T(0,8,3,0,""), T(2,0,3,0,"")),
    Seg("10JAN", "JFK", "LHR", HK1, T(2,5,0,0,""), T(0,8,0,0,"")),
    Seg("10JAN", "JFK", "LHR", Stat("SS", 1), T(0,9,0,0,""), T(2,1,0,0,"")),
    Seg("10JAN", "JFK", "LHR", Stat("UN", 0), T(0,8,0,0,"P"), T(0,8,0,0,"A")),
    Seg("", "JFK", "LHR", HX1, T(0,8,0,0,""), T(2,0,0,0,"")) }

InitSegs ==
  /\ pc = "call"
  /\ text = NoText
  /\ out = None
  /\ arg \in SeqsUpTo(SegDicts, MaxSegs)
  /\ ret = None
  /\ store = NoFiles

ComputeScheduleChange ==
  /\ pc = "call"
  /\ \E ko \in KeyOrders(CommonKeys(arg)) :
       ret' = Compute_schedule_change_from_segments(arg, ko)
  /\ pc' = "sc_done"
  /\ UNCHANGED <<text, out, arg, store>>

ComputeLayover ==
  /\ pc = "call"
  /\ ret' = Compute_layover_minutes(arg)
  /\ pc' = "lay_done"
  /\ UNCHANGED <<text, out, arg, store>>

NextSegs == ComputeScheduleChange \/ ComputeLayover

SpecSegs == InitSegs /\ [][NextSegs]_vars

-----------------------------------------------------------------------------
(* Specification of the time-token normalizer: a token is given, the call  *)
(* returns its minutes or None.                                            *)

Digits == {0, 1, 2, 3, 5, 9}
Suffixes == {"A", "P", "", "+1", "X"}

Tokens ==
  {Tok(ds, sfx) : ds \in SeqsUpTo(Digits, MaxDigits), sfx \in Suffixes}

InitTok ==
  /\ pc = "call"
  /\ text = NoText
  /\ out = None
  /\ arg \in Tokens
  /\ ret = None
  /\ store = NoFiles

ToMinutesAny ==
  /\ pc = "call"
  /\ ret' = To_minutes_any(arg)
  /\ pc' = "tok_done"
  /\ UNCHANGED <<text, out, arg, store>>

TimeTokenToMinutes ==
  /\ pc = "tok_done"
  /\ out' = Time_token_to_minutes(arg)
  /\ pc' = "both_done"
  /\ UNCHANGED <<text, arg, ret, store>>

NextTok == ToMinutesAny \/ TimeTokenToMinutes

SpecTok == InitTok /\ [][NextTok]_vars

-----------------------------------------------------------------------------
(* Strings and patterns.  A text of the set extractors is a string; the    *)
(* patterns are the terms below, matched as re matches them with re.I:     *)
(* Ends gives the positions after the matches that start at i, the         *)
(* preferred one first (earlier alternative, greedy or lazy repetition).   *)

Ch(s, i) == SubSeq(s, i, i)

LowerLetters == "abcdefghijklmnopqrstuvwxyz"
UpperLetters == "ABCDEFGHIJKLMNOPQRSTUVWXYZ"
DigitChars == "0123456789"

\* the characters of the texts in code point order
CodePoints ==
  " *-/0123456789:ABCDEFGHIJKLMNOPQRSTUVWXYZabcdefghijklmnopqrstuvwxyz"

Occurs(c, str) == \E k \in 1..Len(str) : Ch(str, k) = c
IndexIn(c, str) == CHOOSE k \in 1..Len(str) : Ch(str, k) = c

CharsOf(str) == {Ch(str, k) : k \in 1..Len(str)}

LetterSet == CharsOf(LowerLetters) \cup CharsOf(UpperLetters)
DigitSet == CharsOf(DigitChars)
UpperTable == [c \in CharsOf(LowerLetters) |-> Ch(UpperLetters, IndexIn(c, LowerLetters))]
OrdTable == [c \in CharsOf(CodePoints) |-> IndexIn(c, CodePoints)]

\* str.upper() of one character
UpperCh(c) == IF c \in DOMAIN UpperTable THEN UpperTable[c] ELSE c

\* str.upper()
RECURSIVE UpperStr(_)
UpperStr(s) == IF s = "" THEN "" ELSE UpperCh(Ch(s, 1)) \o UpperStr(SubSeq(s, 2, Len(s)))

\* ord(c), up to the order
Ord(c) == OrdTable[c]

IsDigitCh(c) == c \in DigitSet
IsLetterCh(c) == c \in LetterSet

\* the character classes of the patterns: [A-Z0-9] and \w under re.I, \d,
\* \s, [:\s], [^\n]
InClass(c, cls) ==
  CASE cls = "alnum" -> IsLetterCh(c) \/ IsDigitCh(c)
    [] cls = "word"  -> IsLetterCh(c) \/ IsDigitCh(c) \/ c = "_"
    [] cls = "digit" -> IsDigitCh(c)
    [] cls = "space" -> c = " "
    [] cls = "colsp" -> c = ":" \/ c = " "
    [] cls = "notnl" -> TRUE

Lit(str) == [t |-> "lit", s |-> str]
Cls(c) == [t |-> "cls", c |-> c]
SeqR(rs) == [t |-> "seq", rs |-> rs]
Alt(rs) == [t |-> "alt", rs |-> rs]
\* r{lo,hi}, hi = -1 for no upper limit
Rep(r, lo, hi) == [t |-> "rep", r |-> r, lo |-> lo, hi |-> hi, greedy |-> TRUE]
\* r{lo,hi}?
Lazy(r, lo, hi) == [t |-> "rep", r |-> r, lo |-> lo, hi |-> hi, greedy |-> FALSE]
Opt(r) == Rep(r, 0, 1)
\* \b
WB == [t |-> "wb"]

\* the literal str is at position i of s, letter case ignored
RECURSIVE LitAt(_, _, _)
LitAt(str, s, i) ==
  IF str = "" THEN TRUE
  ELSE /\ i <= Len(s)
       /\ UpperCh(Ch(s, i)) = UpperCh(Ch(str, 1))
       /\ LitAt(SubSeq(str, 2, Len(str)), s, i + 1)

\* \b at position i: exactly one of the characters before and at i is \w
BoundaryAt(s, i) ==
  LET before == i > 1 /\ InClass(Ch(s, i - 1), "word")
      here == i <= Len(s) /\ InClass(Ch(s, i), "word")
  IN before # here

RECURSIVE Ends(_, _, _)
RECURSIVE EndsSeq(_, _, _)
RECURSIVE SeqAfter(_, _, _)
RECURSIVE EndsAlt(_, _, _)
RECURSIVE EndsRep(_, _, _)
RECURSIVE RepAfter(_, _, _, _)

Ends(r, s, i) ==
  CASE r.t = "lit" -> IF LitAt(r.s, s, i) THEN <<i + Len(r.s)>> ELSE <<>>
    [] r.t = "cls" -> IF i <= Len(s) /\ InClass(Ch(s, i), r.c) THEN <<i + 1>> ELSE <<>>
    [] r.t = "wb"  -> IF BoundaryAt(s, i) THEN <<i>> ELSE <<>>
    [] r.t = "seq" -> EndsSeq(r.rs, s, i)
    [] r.t = "alt" -> EndsAlt(r.rs, s, i)
    [] r.t = "rep" -> EndsRep(r, s, i)

EndsSeq(rs, s, i) ==
  IF rs = <<>> THEN <<i>>
  ELSE SeqAfter(Ends(Head(rs), s, i), Tail(rs), s)

SeqAfter(es, rs, s) ==
  IF es = <<>> THEN <<>>
  ELSE EndsSeq(rs, s, Head(es)) \o SeqAfter(Tail(es), rs, s)

EndsAlt(rs, s, i) ==
  IF rs = <<>> THEN <<>>
  ELSE Ends(Head(rs), s, i) \o EndsAlt(Tail(rs), s, i)

EndsRep(r, s, i) ==
  LET stop == IF r.lo = 0 THEN <<i>> ELSE <<>>
      rest == [r EXCEPT !.lo = IF r.lo = 0 THEN 0 ELSE r.lo - 1,
                        !.hi = IF r.hi = -1 THEN -1 ELSE r.hi - 1]
      more == IF r.hi = 0 THEN <<>> ELSE RepAfter(Ends(r.r, s, i), rest, s, i)
  IN IF r.greedy THEN more \o stop ELSE stop \o more

RepAfter(es, rest, s, i) ==
  IF es = <<>> THEN <<>>
  ELSE (IF Head(es) > i THEN EndsRep(rest, s, Head(es)) ELSE <<>>)
         \o RepAfter(Tail(es), rest, s, i)

\* pattern.findall(s): the matches from left to right, not overlapping
RECURSIVE FindAllFrom(_, _, _)
FindAllFrom(r, s, i) ==
  IF i > Len(s) + 1 THEN <<>>
  ELSE LET es == Ends(r, s, i)
       IN IF es = <<>> THEN FindAllFrom(r, s, i + 1)
          ELSE <<<<i, Head(es)>>>>
                 \o FindAllFrom(r, s, IF Head(es) > i THEN Head(es) ELSE i + 1)

\* the spans <<start, position after the end>> of the matches
Spans(r, s) == FindAllFrom(r, s, 1)

\* re.findall(r, s): the matched strings
FindAll(r, s) ==
  LET sp == Spans(r, s)
  IN [k \in 1..Len(sp) |-> SubSeq(s, sp[k][1], sp[k][2] - 1)]

\* pattern.search(s) is a match
Search(r, s) == \E i \in 1..(Len(s) + 1) : Ends(r, s, i) # <<>>

\* a < b for strings, as Python compares them
RECURSIVE StrLess(_, _)
StrLess(a, b) ==
  IF b = "" THEN FALSE
  ELSE IF a = "" THEN TRUE
  ELSE IF Ch(a, 1) # Ch(b, 1) THEN Ord(Ch(a, 1)) < Ord(Ch(b, 1))
  ELSE StrLess(SubSeq(a, 2, Len(a)), SubSeq(b, 2, Len(b)))

\* sorted(set(xs)) for a list of strings
RECURSIVE SortedOf(_)
SortedOf(S) ==
  IF S = {} THEN <<>>
  ELSE LET m == CHOOSE x \in S : \A y \in S \ {x} : StrLess(x, y)
       IN <<m>> \o SortedOf(S \ {m})

Range(f) == {f[k] : k \in DOMAIN f}

\* the list as found: repeats kept, not sorted
ListAsFound(xs) == xs

SortedSet(xs) == SortedOf(Range(xs))

-----------------------------------------------------------------------------
(* The set extractors *)

AlnumC == Cls("alnum")
DigitC == Cls("digit")
Spaces0 == Rep(Cls("space"), 0, -1)

\* r"/DC[A-Z0-9]{2,3}\*[A-Z0-9]{4,12}/E"
SigSabre ==
  SeqR(<<Lit("/DC"), Rep(AlnumC, 2, 3), Lit("*"), Rep(AlnumC, 4, 12), Lit("/E")>>)

\* r"(?:NONEND[^\n]*?WAIVER[^\n]*?[A-Z0-9]{3,})"
SigAmadeus ==
  SeqR(<<Lit("NONEND"), Lazy(Cls("notnl"), 0, -1), Lit("WAIVER"),
         Lazy(Cls("notnl"), 0, -1), Rep(AlnumC, 3, -1)>>)

\* r"RF-[A-Z0-9]{3,12}"
SigRf == SeqR(<<Lit("RF-"), Rep(AlnumC, 3, 12)>>)

\* r"WAIVER[:\s]+[A-Z0-9]{3,15}"
SigTravelport ==
  SeqR(<<Lit("WAIVER"), Rep(Cls("colsp"), 1, -1), Rep(AlnumC, 3, 15)>>)

SigPatterns == <<SigSabre, SigAmadeus, SigRf, SigTravelport>>

\* extract_common_signatures(text)
Extract_common_signatures(t) ==
  SortedSet(FindAll(SigSabre, t) \o FindAll(SigAmadeus, t)
              \o FindAll(SigRf, t) \o FindAll(SigTravelport, t))

\* r"\b(HK\d?|HX\d?|TK\d?|SC|HS\/HK\d?|HK\/HX\d?|NN\/\w+|SS\d?)\b"
StatusPattern ==
  SeqR(<<WB,
         Alt(<<SeqR(<<Lit("HK"), Opt(DigitC)>>),
               SeqR(<<Lit("HX"), Opt(DigitC)>>),
               SeqR(<<Lit("TK"), Opt(DigitC)>>),
               Lit("SC"),
               SeqR(<<Lit("HS/HK"), Opt(DigitC)>>),
               SeqR(<<Lit("HK/HX"), Opt(DigitC)>>),
               SeqR(<<Lit("NN/"), Rep(Cls("word"), 1, -1)>>),
               SeqR(<<Lit("SS"), Opt(DigitC)>>)>>),
         WB>>)

\* extract_status_codes(text)
Extract_status_codes(t) == SortedSet(FindAll(StatusPattern, t))

\* RE_REASON_CODES = re.compile(r"\bRF-[A-Z0-9]{3,12}\b", re.I)
RE_REASON_CODES == SeqR(<<WB, Lit("RF-"), Rep(AlnumC, 3, 12), WB>>)

\* extract_reason_codes(text)
Extract_reason_codes(t) == SortedSet(FindAll(RE_REASON_CODES, t))

Word(alts) == SeqR(<<WB, Alt(alts), WB>>)

ISSUE_PATTERNS ==
  << <<"schedule_change",
       Word(<<SeqR(<<Lit("SC"), Opt(Lit("HD")), Opt(Cls("space")), Lit("CHG")>>),
              Lit("SKCHG"), Lit("SCHG"),
              SeqR(<<Lit("SCHEDULE"), Spaces0, Lit("CHANGE")>>),
              SeqR(<<Lit("RETIME"), Opt(Lit("D"))>>),
              Lit("RE-TIME")>>)>>,
     <<"cancellation",
       Word(<<Lit("CXL"),
              SeqR(<<Lit("CANCEL"), Opt(Alt(<<Lit("L"), Lit("ED"), Lit("ATION")>>))>>),
              SeqR(<<Lit("FLT"), Spaces0, Lit("CNL")>>),
              Lit("NO-OP")>>)>>,
     <<"delay", Word(<<Lit("DELAY"), Lit("DLAY"), Lit("RETARD")>>)>>,
     <<"denied_boarding",
       Word(<<SeqR(<<Lit("DENIED"), Spaces0, Lit("BOARDING")>>),
              Lit("OVERSALE"), Lit("OVERSOLD"), Lit("DB"),
              SeqR(<<Lit("INVOL"), Spaces0, Lit("DNB")>>)>>)>>,
     <<"misconnect", Word(<<Lit("MISCONNECT"), Lit("MISCONX"), Lit("MISCNX")>>)>>,
     <<"weather", Word(<<Lit("WEATHER"), Lit("WX")>>)>>,
     <<"maintenance", Word(<<Lit("MX"), SeqR(<<Lit("MAINT"), Opt(Lit("ENANCE"))>>)>>)>>,
     <<"atc",
       Word(<<Lit("ATC"),
              SeqR(<<Lit("AIR"), Spaces0, Lit("TRAFFIC"), Spaces0, Lit("CONTROL")>>)>>)>>,
     <<"security", Word(<<Lit("SECURITY"), Lit("SEC")>>)>>,
     <<"involuntary",
       Word(<<SeqR(<<Lit("INVOL"), Opt(Lit("UNTARY"))>>),
              SeqR(<<Lit("IRROP"), Opt(Lit("S"))>>),
              Lit("IROP")>>)>> >>

\* detect_issue_tokens(text)[0]
Detect_issue_tokens(t) ==
  SortedOf({ISSUE_PATTERNS[k][1] : k \in {n \in DOMAIN ISSUE_PATTERNS :
                                            Search(ISSUE_PATTERNS[n][2], t)}})

\* the set-valued fields of parse_pnr_text(t)
ParseSets(t) ==
  [status_codes |-> Extract_status_codes(t),
   endorsement_signatures |-> Extract_common_signatures(t),
   issue_tokens |-> Detect_issue_tokens(t),
   reason_codes |-> Extract_reason_codes(t)]

\* the first label of ISSUE_PATTERNS, in the order of the list, whose
\* pattern is found
RECURSIVE FirstLabel(_, _)
FirstLabel(pats, t) ==
  IF pats = <<>> THEN None
  ELSE IF Search(Head(pats)[2], t) THEN Some(Head(pats)[1])
  ELSE FirstLabel(Tail(pats), t)

\* the label found last in the order of the list
Detect_issue_label_last(t) ==
  FirstLabel([k \in 1..Len(ISSUE_PATTERNS) |->
                ISSUE_PATTERNS[Len(ISSUE_PATTERNS) + 1 - k]], t)

\* detect_issue_tokens(text)[1]
Detect_issue_label(t) == FirstLabel(ISSUE_PATTERNS, t)

\* h in t
Contains(t, h) == \E i \in 1..(Len(t) - Len(h) + 1) : SubSeq(t, i, i + Len(h) - 1) = h

\* the RF- alternative of r"NONEND|RF-[A-Z0-9]{3,}"
RfCode == SeqR(<<Lit("RF-"), Rep(AlnumC, 3, -1)>>)

\* what detect_gds reads of a text: the hints that occur in text.upper()
\* and whether the two fallback patterns are found in it; the words of the
\* texts hold no segment row and no issue date
FeaturesOf(t) ==
  LET u == UpperStr(t)
  IN [kw |-> {h \in GDS_SABRE_HINTS \cup GDS_AMADEUS_HINTS \cup GDS_TRAVELPORT_HINTS :
                Contains(u, h)},
      waiver |-> Search(SigSabre, u),
      rf |-> Search(RfCode, u),
      issued |-> None, dt |-> None, lines |-> <<>>]

\* r"\bWAIVER[:\s]+[A-Z0-9]{3,}\b"
SignoffWaiver ==
  SeqR(<<WB, Lit("WAIVER"), Rep(Cls("colsp"), 1, -1), Rep(AlnumC, 3, -1), WB>>)

\* r"\b(ENDORSEMENT|AUTH(?:ORIZATION| CODE)?|APPR(?:OVAL)?)\b"
SignoffKeyword ==
  Word(<<Lit("ENDORSEMENT"),
         SeqR(<<Lit("AUTH"), Opt(Alt(<<Lit("ORIZATION"), Lit(" CODE")>>))>>),
         SeqR(<<Lit("APPR"), Opt(Lit("OVAL"))>>)>>)

\* the test of the signatures inverted
Detect_airline_signoff_inverted(t, signatures) ==
  LET u == UpperStr(t)
  IN \/ signatures = <<>>
     \/ Search(SigSabre, u)
     \/ Search(SignoffWaiver, u)
     \/ Search(SignoffKeyword, u)

\* detect_airline_signoff(text, signatures)
Detect_airline_signoff(t, signatures) ==
  LET u == UpperStr(t)
  IN \/ signatures # <<>>
     \/ Search(SigSabre, u)
     \/ Search(SignoffWaiver, u)
     \/ Search(SignoffKeyword, u)

\* the fields parse_pnr_text fills by scanning the text
ParseScan(t) ==
  LET sets == ParseSets(t)
  IN sets @@ [airline_signed_off |->
                Detect_airline_signoff(t, sets.endorsement_signatures),
              issue_label |-> Detect_issue_label(t)]

\* datetime.now() is read only when an issue date was found (line 526),
\* and the key set is iterated only when segments were found
ClockUnread == CHOOSE c \in Clock : TRUE

\* the dict parse_pnr_text returns for a text of words
ParseWords(t) == ParseResult(FeaturesOf(t), ClockUnread, ClockUnread, <<>>) @@ ParseScan(t)

-----------------------------------------------------------------------------
(* Specification of parse_pnr_text on texts of words: a text is parsed,    *)
(* and then the text repeated after a blank is parsed.                     *)

Words ==
  {"RF-ABC", "rf-abc", "WAIVER", "WAIVER:", "ABC", "NONEND", "HK1", "hk1",
   "DELAY", "/DCAA*ABCD/E", "CXL", "WORLDSPAN", "APPROVAL"}

RECURSIVE JoinWords(_)
JoinWords(ws) ==
  IF ws = <<>> THEN ""
  ELSE IF Len(ws) = 1 THEN ws[1]
  ELSE ws[1] \o " " \o JoinWords(Tail(ws))

WordTexts == {JoinWords(ws) : ws \in SeqsUpTo(Words, MaxWords)}

InitSets ==
  /\ pc = "call"
  /\ text \in WordTexts
  /\ out = None
  /\ arg = None
  /\ ret = None
  /\ store = NoFiles

\* parse_pnr_text(X)
ParseOnce ==
  /\ pc = "call"
  /\ IF ParseRaises(FeaturesOf(text))
       THEN /\ pc' = "raised"
            /\ out' = None
       ELSE /\ pc' = "once"
            /\ out' = Some(ParseWords(text))
  /\ UNCHANGED <<text, arg, ret, store>>

\* parse_pnr_text(X + " " + X)
ParseRepeated ==
  /\ pc = "once"
  /\ arg' = text \o " " \o text
  /\ ret' = Some(ParseWords(text \o " " \o text))
  /\ pc' = "repeated"
  /\ UNCHANGED <<text, out, store>>

NextSets == ParseOnce \/ ParseRepeated

SpecSets == InitSets /\ [][NextSets]_vars

-----------------------------------------------------------------------------
(***************************************************************************)
(* Storage, the fallback index and the e-mail log.                         *)
(*                                                                         *)
(* store is the Storage object: its backend and the files it holds, a      *)
(* function from keys to JSON documents.  A JSON document is a list        *)
(* [kind |-> "list", items |-> <<...>>] or an object                       *)
(* [kind |-> "dict", fields |-> [...]].                                    *)
(***************************************************************************)

Backends == {"gh", "local"}

JsonList(items) == [kind |-> "list", items |-> items]
JsonDict(fields) == [kind |-> "dict", fields |-> fields]

InSeq(x, sq) == \E i \in DOMAIN sq : sq[i] = x

\* Storage.read_json raises when the key holds no file
Read_raises(st, key) == key \notin DOMAIN st.files

Read_json(st, key) == st.files[key]

\* Storage.write_json on the local backend, and the PUT of the gh backend:
\* the file at key is replaced
Write_json(st, key, obj) ==
  [st EXCEPT !.files =
     [k \in DOMAIN st.files \cup {key} |-> IF k = key THEN obj ELSE st.files[k]]]

\* str.rstrip('/')
RECURSIVE Rstrip(_)
Rstrip(str) ==
  IF Len(str) > 0 /\ SubSeq(str, Len(str), Len(str)) = "/"
    THEN Rstrip(SubSeq(str, 1, Len(str) - 1))
    ELSE str

Index_key(dir_key) == Rstrip(dir_key) \o "/_index.json"

\* the list _index_add starts from: the stored index, or [] when reading
\* raises or the document is not a list
Index_list(st, dir_key) ==
  IF Read_raises(st, Index_key(dir_key)) THEN <<>>
  ELSE IF Read_json(st, Index_key(dir_key)).kind # "list" THEN <<>>
  ELSE Read_json(st, Index_key(dir_key)).items

\* if k and k not in lst
Index_appends(lst, k) == k # "" /\ ~InSeq(k, lst)

\* _index_add(dir_key, {"key": k}) run without interruption (Storage has no
\* upsert_index_item, so the read / append / write path is the one taken)
Index_add(st, dir_key, k) ==
  IF Index_appends(Index_list(st, dir_key), k)
    THEN Write_json(st, Index_key(dir_key),
                    JsonList(Append(Index_list(st, dir_key), k)))
    ELSE st

\* _email_index_add(case_id, {"key": k})
Email_index_add(st, case_id, k) == Index_add(st, "emails/" \o case_id, k)

\* the keys _index_add hands to storage.write_json
Index_writes(st, dir_key, k) ==
  IF Index_appends(Index_list(st, dir_key), k)
    THEN <<Index_key(dir_key)>>
    ELSE <<>>

(***************************************************************************)
(* _send_email_via_api: calls made one after another on a storage whose    *)
(* reads and writes succeed.  arg is the list of the calls made so far     *)
(* (the last one is the current call), text the timestamp the call read,   *)
(* out the keys the call handed to storage.write_json, in order, and ret   *)
(* the dict it returned.  The wall clock is not monotonic and two calls    *)
(* may read the same timestamp, so a call reads any of Stamps.             *)
(***************************************************************************)

MaxCalls == 2

Subjects == {"S1", "S2"}
ThreadIds == {None, Some(""), Some("T1")}
Stamps == {"t1", "t2"}

\* what the mail sender does: _gmail_send is unset, raises, or returns r
\* (None or a dict)
Senders ==
  {[does |-> "unavailable", r |-> None],
   [does |-> "raises", r |-> None],
   [does |-> "returns", r |-> None],
   [does |-> "returns", r |-> Some([id |-> "m1"])]}

\* resp before the log key is added
Send_resp(sender) ==
  IF sender.does = "unavailable" THEN [sent |-> FALSE]
  ELSE IF sender.does = "raises" THEN [sent |-> FALSE, error |-> "e"]
  ELSE IF IsSet(sender.r) THEN Val(sender.r) @@ [sent |-> TRUE]
  ELSE [sent |-> TRUE]

Case_id_subject(thread_id, subject) == subject

\* payload.get("thread_id") or subject
Case_id(thread_id, subject) ==
  IF IsSet(thread_id) /\ Val(thread_id) # "" THEN Val(thread_id) ELSE subject

Log_key(case_id, ts) == "emails/" \o case_id \o "/" \o ts \o ".json"

\* the record _log_sent_email writes: {**payload, **resp} updated with the
\* key and the timestamp
Log_record(payload, resp, key, ts) ==
  JsonDict([key |-> key, logged_at |-> ts] @@ resp @@ payload)

\* files found in the storage before the first call: none, an index that is
\* not a list, an index that lists a screenshot
InitialEmailFiles ==
  {NoFiles,
   [k \in {"emails/S1/_index.json"} |-> JsonDict([note |-> "x"])],
   [k \in {"emails/T1/_index.json"} |-> JsonList(<<"screenshots/T1.png">>)]}

InitEmail ==
  /\ pc = "idle"
  /\ text = ""
  /\ out = <<>>
  /\ arg = <<>>
  /\ ret = None
  /\ store \in [backend : Backends, files : InitialEmailFiles]

\* _send_email_via_api(to, subject, text, thread_id = thread_id), with
\* _log_sent_email and _email_index_add inside it
SendEmailViaApi ==
  /\ Len(arg) < MaxCalls
  /\ \E subject \in Subjects, thread_id \in ThreadIds,
        sender \in Senders, ts \in Stamps :
       LET payload == [subject |-> subject, thread_id |-> thread_id]
           resp == Send_resp(sender)
           case_id == Case_id(thread_id, subject)
           key == Log_key(case_id, ts)
           logged == Write_json(store, key, Log_record(payload, resp, key, ts))
       IN /\ arg' = Append(arg, [subject |-> subject, thread_id |-> thread_id,
                                 sender |-> sender])
          /\ text' = ts
          /\ store' = Email_index_add(logged, case_id, key)
          /\ out' = <<key>> \o Index_writes(logged, "emails/" \o case_id, key)
          /\ ret' = Some([log_key |-> key] @@ resp)
          /\ pc' = "returned"

NextEmail == SendEmailViaApi

SpecEmail == InitEmail /\ [][NextEmail]_vars

(***************************************************************************)
(* _index_add run by two callers at once on one directory.  text is the    *)
(* dir_key, arg[p] the key caller p adds, out[p] its local list lst,       *)
(* ret[p] the sha its _gh_put read, pc[p] its position.  On the local      *)
(* backend write_json replaces the file; on the gh backend _gh_put reads   *)
(* the sha of the file and then PUTs with it, and the PUT is refused (the  *)
(* response raises in raise_for_status) when the file is no longer the one *)
(* the sha was read from.                                                  *)
(***************************************************************************)

MaxIndex == 2

Procs == {1, 2}
IndexKeys == {"a.json", "b.json", "c.json"}
Dirs == {"submissions", "emails/T1"}

NoDuplicate(sq) == \A i, j \in DOMAIN sq : sq[i] = sq[j] => i = j

\* the index documents found before the two calls: a list the fallback has
\* built (no key twice), or a document that is not a list
InitialIndexDocs ==
  {JsonDict([note |-> "x"])}
    \cup {JsonList(sq) : sq \in {l \in SeqsUpTo(IndexKeys, MaxIndex) : NoDuplicate(l)}}

InitialIndexFiles(dir_key) ==
  {NoFiles} \cup {[k \in {Index_key(dir_key)} |-> doc] : doc \in InitialIndexDocs}

\* _gh_get_sha: None for a missing file, else the sha of its content
Gh_get_sha(st, key) ==
  IF key \in DOMAIN st.files THEN Some(st.files[key]) ELSE None

InitIndex ==
  /\ pc = [p \in Procs |-> "call"]
  /\ text \in Dirs
  /\ out = [p \in Procs |-> <<>>]
  /\ arg \in [Procs -> IndexKeys]
  /\ ret = [p \in Procs |-> None]
  /\ \E b \in Backends, f \in InitialIndexFiles(text) :
       store = [backend |-> b, files |-> f]

\* lst = storage.read_json(index_key), and the decision to append
IndexRead(p) ==
  /\ pc[p] = "call"
  /\ IF Index_appends(Index_list(store, text), arg[p])
       THEN /\ out' = [out EXCEPT ![p] = Append(Index_list(store, text), arg[p])]
            /\ pc' = [pc EXCEPT ![p] =
                        IF store.backend = "local" THEN "write" ELSE "get_sha"]
       ELSE /\ out' = [out EXCEPT ![p] = Index_list(store, text)]
            /\ pc' = [pc EXCEPT ![p] = "done"]
  /\ UNCHANGED <<text, arg, ret, store>>

\* storage.write_json(index_key, lst) on the local backend
IndexWrite(p) ==
  /\ pc[p] = "write"
  /\ store' = Write_json(store, Index_key(text), JsonList(out[p]))
  /\ pc' = [pc EXCEPT ![p] = "done"]
  /\ UNCHANGED <<text, out, arg, ret>>

\* sha = self._gh_get_sha(key)
GhGetSha(p) ==
  /\ pc[p] = "get_sha"
  /\ ret' = [ret EXCEPT ![p] = Gh_get_sha(store, Index_key(text))]
  /\ pc' = [pc EXCEPT ![p] = "put"]
  /\ UNCHANGED <<text, out, arg, store>>

\* the PUT of _gh_put and r.raise_for_status()
GhPut(p) ==
  /\ pc[p] = "put"
  /\ IF Gh_get_sha(store, Index_key(text)) = ret[p]
       THEN /\ store' = Write_json(store, Index_key(text), JsonList(out[p]))
            /\ pc' = [pc EXCEPT ![p] = "done"]
       ELSE /\ store' = store
            /\ pc' = [pc EXCEPT ![p] = "raised"]
  /\ UNCHANGED <<text, out, arg, ret>>

NextIndex ==
  \E p \in Procs : IndexRead(p) \/ IndexWrite(p) \/ GhGetSha(p) \/ GhPut(p)

SpecIndex == InitIndex /\ [][NextIndex]_vars

-----------------------------------------------------------------------------
(* Properties.  The classes, the delta rule and the pairs are restated     *)
(* here as the specification words them, apart from the operators above.   *)

CancelledClass(st) == st.base \in {"HX", "UN", "UC", "US", "NO"}
ActiveClass(st) == st.base \in {"HK", "OK", "HS", "TKOK"}

\* new - old, increased by 1440 exactly when it is below -720
RefDelta(old, new) == IF new - old < -720 THEN new - old + 1440 ELSE new - old

Convertible(tok) == IsSet(To_minutes_any(tok))
Minutes(tok) == Val(To_minutes_any(tok))
ClockTime(tok) == Convertible(tok) /\ Minutes(tok) >= 0 /\ Minutes(tok) < 1440

\* segments i (old) and j (new) are a cancelled x active pair on one key
SameKeyPair(segs, i, j) ==
  /\ CancelledClass(segs[i].stat) /\ ActiveClass(segs[j].stat)
  /\ segs[i].date # "" /\ segs[i].orig # "" /\ segs[i].dest # ""
  /\ segs[i].date = segs[j].date
  /\ segs[i].orig = segs[j].orig
  /\ segs[i].dest = segs[j].dest

\* ... whose four time tokens convert
CandidatePair(segs, i, j) ==
  /\ SameKeyPair(segs, i, j)
  /\ Convertible(segs[i].dep) /\ Convertible(segs[i].arr)
  /\ Convertible(segs[j].dep) /\ Convertible(segs[j].arr)

PairDepDelta(old, new) == RefDelta(Minutes(old.dep), Minutes(new.dep))
PairArrDelta(old, new) == RefDelta(Minutes(old.arr), Minutes(new.arr))
PairMaxDelta(old, new) == Max2(PairDepDelta(old, new), PairArrDelta(old, new))

Returned == pc = "returned"
Result == Val(out)
ScOf(o) == Val(o.schedule_change)
HasDeltas(sc) == "max_delta_min" \in DOMAIN sc
HasScLine(t) == \E k \in DOMAIN t.lines : MatchScRow(t.lines[k])

\* C1: parse_pnr_text never raises, whatever the text and its issue-date
\* token.
C1_NeverRaises == pc # "raised"

\* C2: whenever the extracted segments hold a cancelled x active pair on one
\* key with four convertible tokens, schedule_change is set and its
\* max_delta_min is at least the maxDelta of every such pair.
C2_NeverUnderReported ==
  Returned =>
    \A i, j \in DOMAIN Result.segments :
      CandidatePair(Result.segments, i, j) =>
        /\ IsSet(Result.schedule_change)
        /\ HasDeltas(ScOf(Result))
        /\ IsSet(ScOf(Result).max_delta_min)
        /\ Val(ScOf(Result).max_delta_min)
             >= PairMaxDelta(Result.segments[i], Result.segments[j])

InOpenClosed720(d) == d > -720 /\ d <= 720

\* C3 (as stated): every reported departure and arrival delta lies in
\* (-720, 720].
C3_DeltaBound ==
  (Returned /\ IsSet(Result.schedule_change) /\ HasDeltas(ScOf(Result))) =>
    /\ IsSet(ScOf(Result).delta_dep_min) => InOpenClosed720(Val(ScOf(Result).delta_dep_min))
    /\ IsSet(ScOf(Result).delta_arr_min) => InOpenClosed720(Val(ScOf(Result).delta_arr_min))

AmendedDelta(d, old, new) ==
  /\ IsSet(d)
  /\ Val(d) = RefDelta(Minutes(old), Minutes(new))
  /\ (ClockTime(old) /\ ClockTime(new)) => (Val(d) >= -720 /\ Val(d) <= 1439)

\* C3 (amended): every reported delta is new - old, increased by 1440
\* exactly when new - old is below -720; when both tokens are clock times
\* in [0, 1440) it lies in [-720, 1439].
C3_DeltaBoundAmended ==
  (Returned /\ IsSet(Result.schedule_change) /\ HasDeltas(ScOf(Result))) =>
    /\ AmendedDelta(ScOf(Result).delta_dep_min, ScOf(Result).old_dep, ScOf(Result).new_dep)
    /\ AmendedDelta(ScOf(Result).delta_arr_min, ScOf(Result).old_arr, ScOf(Result).new_arr)

\* a reported delta of clock times above 720, and a wrapped one beside it
C3_Witness ==
  /\ Returned /\ IsSet(Result.schedule_change) /\ HasDeltas(ScOf(Result))
  /\ ClockTime(ScOf(Result).old_dep) /\ ClockTime(ScOf(Result).new_dep)
  /\ Val(ScOf(Result).delta_dep_min) > 720

\* a delta of exactly -720, reported as it is
C3_WitnessEdge ==
  /\ Returned /\ IsSet(Result.schedule_change) /\ HasDeltas(ScOf(Result))
  /\ ScOf(Result).delta_arr_min = Some(-720)

HasSameKeyPair(segs) == \E i, j \in DOMAIN segs : SameKeyPair(segs, i, j)

\* C4 (as stated): schedule_change is set only when the extracted segments
\* hold a cancelled-class and an active-class segment on one key.
C4_OnlyWithPair ==
  (Returned /\ IsSet(Result.schedule_change)) => HasSameKeyPair(Result.segments)

\* C4 (amended): schedule_change is set only when the extracted segments
\* hold a cancelled-class and an active-class segment on one key, or the
\* dialect is sabre and the text has an SC summary line.
C4_OnlyWithPairOrScLine ==
  (Returned /\ IsSet(Result.schedule_change)) =>
    \/ HasSameKeyPair(Result.segments)
    \/ Result.gds = "sabre" /\ HasScLine(text)

\* a schedule change declared by the SC line alone
C4_Witness ==
  /\ Returned /\ IsSet(Result.schedule_change)
  /\ ~HasSameKeyPair(Result.segments)
  /\ Result.gds = "sabre" /\ HasScLine(text)

\* a schedule change found by pairing
C4_WitnessPair ==
  /\ Returned /\ IsSet(Result.schedule_change)
  /\ HasSameKeyPair(Result.segments)
  /\ ~HasScLine(text)

ScDone == pc = "sc_done"

CandidatePairs(segs) ==
  {p \in (DOMAIN segs) \X (DOMAIN segs) : CandidatePair(segs, p[1], p[2])}

\* the returned dict is the candidate of the pair p
IsCandidateOf(sc, segs, p) ==
  /\ sc.date = segs[p[1]].date /\ sc.orig = segs[p[1]].orig /\ sc.dest = segs[p[1]].dest
  /\ sc.old_dep = segs[p[1]].dep /\ sc.old_arr = segs[p[1]].arr
  /\ sc.new_dep = segs[p[2]].dep /\ sc.new_arr = segs[p[2]].arr
  /\ sc.max_delta_min = Some(PairMaxDelta(segs[p[1]], segs[p[2]]))

\* C5: compute_schedule_change_from_segments returns a candidate pair of
\* greatest maxDelta, and nothing only when there is no candidate.
C5_GreatestMaxDelta ==
  ScDone =>
    /\ (ret = None) <=> (CandidatePairs(arg) = {})
    /\ IsSet(ret) =>
         /\ \E p \in CandidatePairs(arg) : IsCandidateOf(Val(ret), arg, p)
         /\ \A p \in CandidatePairs(arg) :
              PairMaxDelta(arg[p[1]], arg[p[2]]) <= Val(Val(ret).max_delta_min)

\* a smaller candidate met before the kept one
C5_Witness ==
  /\ ScDone /\ IsSet(ret)
  /\ \E p, q \in CandidatePairs(arg) :
       /\ p[1] < q[1] /\ p[2] < q[2]
       /\ PairMaxDelta(arg[p[1]], arg[p[2]]) < PairMaxDelta(arg[q[1]], arg[q[2]])
       /\ IsCandidateOf(Val(ret), arg, q)

\* the keys in the order the segment list first shows them
RECURSIVE FirstSeen(_, _)
FirstSeen(segs, K) ==
  IF segs = <<>> THEN <<>>
  ELSE IF KeyOf(Head(segs)) \in K
    THEN <<KeyOf(Head(segs))>> \o FirstSeen(Tail(segs), K \ {KeyOf(Head(segs))})
  ELSE FirstSeen(Tail(segs), K)

\* C6: among candidates that tie on the greatest maxDelta the first one in
\* segment order is kept, whatever the iteration order of the key set.
C6_FirstEncounteredTie ==
  ScDone =>
    ret = Compute_schedule_change_from_segments(arg, FirstSeen(arg, CommonKeys(arg)))

ExampleOld == Seg("10JAN", "JFK", "LHR", HX1, T(0,8,0,0,""), T(2,0,0,0,""))
ExampleNew == Seg("10JAN", "JFK", "LHR", HK1, T(1,4,0,0,""), T(0,2,0,0,"+1"))

\* C7: departureDelta = newDep - oldDep and arrivalDelta = newArr - oldArr,
\* each increased by 1440 exactly when below -720, maxDelta the greater of
\* the two; old 0800/2000 and new 1400/0200+1 give 360, 360 and 360.
C7_DeltaRule ==
  (ScDone /\ IsSet(ret)) =>
    LET sc == Val(ret)
    IN /\ sc.delta_dep_min = Some(RefDelta(Minutes(sc.old_dep), Minutes(sc.new_dep)))
       /\ sc.delta_arr_min = Some(RefDelta(Minutes(sc.old_arr), Minutes(sc.new_arr)))
       /\ sc.max_delta_min = Some(Max2(Val(sc.delta_dep_min), Val(sc.delta_arr_min)))
       /\ arg = <<ExampleOld, ExampleNew>> =>
            /\ sc.delta_dep_min = Some(360)
            /\ sc.delta_arr_min = Some(360)
            /\ sc.max_delta_min = Some(360)

\* the pairing scenario, its arrival delta wrapped
C7_Witness ==
  /\ ScDone /\ arg = <<ExampleOld, ExampleNew>>
  /\ IsSet(ret) /\ Val(ret).delta_arr_min = Some(360)

\* a negative delta that is not wrapped
C7_WitnessNoWrap ==
  /\ ScDone /\ IsSet(ret)
  /\ Val(Val(ret).delta_dep_min) < 0 /\ Val(Val(ret).delta_dep_min) >= -720

\* C8: inv_ref_eligibility_3h is true iff schedule_change is set and its
\* max_delta_min is at least 180; false without a schedule change and for
\* a bare SC line.
C8_Eligibility3h ==
  Returned =>
    (Result.inv_ref_eligibility_3h
       <=> /\ IsSet(Result.schedule_change)
           /\ HasDeltas(ScOf(Result))
           /\ IsSet(ScOf(Result).max_delta_min)
           /\ Val(ScOf(Result).max_delta_min) >= 180)

\* a schedule change of exactly three hours
C8_Witness ==
  /\ Returned /\ IsSet(Result.schedule_change) /\ HasDeltas(ScOf(Result))
  /\ ScOf(Result).max_delta_min = Some(180)
  /\ Result.inv_ref_eligibility_3h

\* a bare SC line
C8_WitnessBare ==
  /\ Returned /\ IsSet(Result.schedule_change) /\ ~HasDeltas(ScOf(Result))
  /\ ~Result.inv_ref_eligibility_3h

SameSegment(a, b) ==
  /\ a.flt = b.flt /\ a.date = b.date /\ a.orig = b.orig /\ a.dest = b.dest
  /\ a.stat = b.stat /\ a.dep = b.dep /\ a.arr = b.arr

\* C9: every segment the generic grammar finds in the text is among the
\* segments parse_pnr_text uses, whatever the detected dialect.
C9_GenericAlwaysRuns ==
  Returned =>
    LET gen == Extract_generic_segments(text.lines)
    IN \A g \in DOMAIN gen :
         \E k \in DOMAIN Result.segments : SameSegment(gen[g], Result.segments[k])

TokDone == pc = "tok_done"

\* HHMM[A|P] (three or four digits), or HHMM of a 24-hour clock (hours 00
\* to 23, minutes 00 to 59) with an optional +1
GrammarToken(t) ==
  \/ Len(t.ds) \in {3, 4} /\ t.sfx \in {"A", "P"}
  \/ /\ Len(t.ds) = 4 /\ t.sfx \in {"", "+1"}
     /\ 10 * t.ds[1] + t.ds[2] <= 23
     /\ 10 * t.ds[3] + t.ds[4] <= 59

\* C10: for every token of the 12-hour or the 24-hour grammar the normalizer
\* returns an integer m with 0 <= m < 1440.
C10_MinutesInDay ==
  (TokDone /\ GrammarToken(arg)) => (IsSet(ret) /\ Val(ret) >= 0 /\ Val(ret) < 1440)

\* the hour and minute digits of a three- or four-digit token
RefHH(t) == IF Len(t.ds) = 3 THEN t.ds[1] ELSE 10 * t.ds[1] + t.ds[2]
RefMM(t) == 10 * t.ds[Len(t.ds) - 1] + t.ds[Len(t.ds)]

\* 12-hour: 12 AM is hour 0, 12 PM stays 12, any other PM hour gains 12;
\* 24-hour: the hour as written, +1 or not
RefMinutes(t) ==
  IF t.sfx \in {"A", "P"}
    THEN 60 * (IF RefHH(t) = 12 THEN (IF t.sfx = "A" THEN 0 ELSE 12)
               ELSE IF t.sfx = "P" THEN RefHH(t) + 12 ELSE RefHH(t))
         + RefMM(t)
  ELSE 60 * RefHH(t) + RefMM(t)

\* C11: on every accepted token the normalizer gives the reference value;
\* 0350P -> 950, 1200A -> 0, 1200P -> 720, 1550 -> 950, 0015 -> 15,
\* 0015+1 -> 15.
C11_NormalizerValue ==
  TokDone =>
    /\ GrammarToken(arg) => ret = Some(RefMinutes(arg))
    /\ arg = T(0,3,5,0,"P") => ret = Some(950)
    /\ arg = T(1,2,0,0,"A") => ret = Some(0)
    /\ arg = T(1,2,0,0,"P") => ret = Some(720)
    /\ arg = T(1,5,5,0,"") => ret = Some(950)
    /\ arg = T(0,0,1,5,"") => ret = Some(15)
    /\ arg = T(0,0,1,5,"+1") => ret = Some(15)

\* midnight written as 1200A
C11_Witness == TokDone /\ arg = T(1,2,0,0,"A") /\ ret = Some(0)

\* C12: for every token that matches neither grammar, the empty token
\* included, the normalizer returns null, and never 0 in its place.
C12_NullWhenUnrecognised ==
  (TokDone /\ ~GrammarToken(arg)) => (ret = None /\ ret # Some(0))

\* a one-digit 12-hour token, which the other normalizer would take
C12_Witness == TokDone /\ arg = Tok(<<5>>, "P") /\ ret = None

\* the empty token
C12_WitnessEmpty == TokDone /\ arg = Tok(<<>>, "") /\ ret = None

LayDone == pc = "lay_done"

\* a cancelled x active pair on one key with an unknown token
MalformedPair(segs, i, j) == SameKeyPair(segs, i, j) /\ ~CandidatePair(segs, i, j)

\* C13: a pair with a token that normalizes to null contributes no
\* candidate and does not keep other pairs from being considered, and the
\* layover is null when the first arrival or the second departure is null;
\* null is never read as zero.
C13_MalformedDegrades ==
  /\ ScDone =>
       /\ IsSet(ret) =>
            /\ Convertible(Val(ret).old_dep) /\ Convertible(Val(ret).old_arr)
            /\ Convertible(Val(ret).new_dep) /\ Convertible(Val(ret).new_arr)
       /\ CandidatePairs(arg) # {} => IsSet(ret)
       /\ (CandidatePairs(arg) = {}
             /\ \E i, j \in DOMAIN arg : MalformedPair(arg, i, j)) => ret = None
  /\ (LayDone /\ Len(arg) >= 2
        /\ (~Convertible(arg[1].arr) \/ ~Convertible(arg[2].dep))) => ret = None

\* a malformed pair met before a well-formed one, which is kept
C13_Witness ==
  /\ ScDone /\ IsSet(ret)
  /\ \E i, j, k \in DOMAIN arg :
       /\ j < k
       /\ MalformedPair(arg, i, j)
       /\ CandidatePair(arg, i, k)

\* a layover whose second departure is unknown
C13_WitnessLayover ==
  /\ LayDone /\ Len(arg) >= 2
  /\ Convertible(arg[1].arr) /\ ~Convertible(arg[2].dep)
  /\ ret = None

\* C14: two calls on the same text give identical results; the result is
\* a function of the text (and of a clock the caller supplies) only.
C14_Idempotent == pc = "second" => ret = out

\* the dicts of segs occur, in this order, among the dicts of lines
RECURSIVE InLineOrder(_, _)
InLineOrder(segs, lines) ==
  IF segs = <<>> THEN TRUE
  ELSE IF lines = <<>> THEN FALSE
  ELSE IF SameSegment(Head(segs), SegDict(Head(lines)))
         THEN InLineOrder(Tail(segs), Tail(lines))
  ELSE InLineOrder(segs, Tail(lines))

\* C17: the segments of the result are in the order of their lines in the
\* text, also when 24-hour and 12-hour lines are interleaved.
C17_TextOrder == Returned => InLineOrder(Result.segments, text.lines)

\* C18: every segment of the result has an ordinal index, and the indices
\* count 0, 1, 2, ... along the list, on every dialect path.
C18_OrdinalIndex ==
  Returned =>
    \A k \in DOMAIN Result.segments :
      /\ "idx" \in DOMAIN Result.segments[k]
      /\ Result.segments[k].idx = k - 1

\* the first SC summary line of a text
FirstScLine(t) == Head(SelectSeq(t.lines, MatchScRow))

\* the active-class Sabre segments on the key of the SC line
ActiveOnScKey(t) ==
  LET sc == FirstScLine(t)
  IN { l \in {t.lines[k] : k \in DOMAIN t.lines} :
         /\ MatchSabreRow(l) /\ ActiveClass(l.stat)
         /\ l.date = sc.date /\ l.orig = sc.orig /\ l.dest = sc.dest }

\* C20: with a Sabre SC line, the new side of the change is an active-class
\* segment on the SC line's (date, origin, destination); without such a
\* segment only the bare SC fields are returned, the deltas unset.
C20_ScLineNewSideActive ==
  (Returned /\ Result.gds = "sabre" /\ HasScLine(text)) =>
    /\ IsSet(Result.schedule_change)
    /\ IF ActiveOnScKey(text) = {}
         THEN ~HasDeltas(ScOf(Result))
       ELSE /\ HasDeltas(ScOf(Result))
            /\ \E l \in ActiveOnScKey(text) :
                 /\ ScOf(Result).new_dep = l.dep
                 /\ ScOf(Result).new_arr = l.arr

\* the classes with their optional digit
CancelledCode(st) == st.base \in {"HX", "UN", "UC", "US", "NO"} /\ st.nd \in {0, 1}
ActiveCode(st) == st.base \in {"HK", "OK", "HS", "TKOK"} /\ st.nd \in {0, 1}

\* the line is a segment row of the grammar the dialect path uses
RowOfPath(l, gds) ==
  IF gds = "sabre" THEN MatchSabreRow(l) ELSE MatchRow24h(l) \/ MatchRow12h(l)

\* sc is the change of an old segment i and a new segment j of segs
IsChangeOf(sc, segs, i, j) ==
  /\ sc.date = segs[i].date /\ sc.orig = segs[i].orig /\ sc.dest = segs[i].dest
  /\ segs[j].date = sc.date /\ segs[j].orig = sc.orig /\ segs[j].dest = sc.dest
  /\ sc.old_dep = segs[i].dep /\ sc.old_arr = segs[i].arr
  /\ sc.new_dep = segs[j].dep /\ sc.new_arr = segs[j].arr

PairedChange(o) ==
  /\ IsSet(o.schedule_change)
  /\ Get(ScOf(o), "method") = "pair_old_new_segments"

\* C19: a status is cancelled-class exactly when it is HX, UN, UC, US or NO
\* with an optional digit, active-class exactly when it is HK, OK, HS or
\* TKOK with an optional digit, never both; a segment of neither class stays
\* in the segments list and is on neither side of a paired change.
C19_StatusClasses ==
  Returned =>
    LET segs == Result.segments
    IN /\ \A k \in DOMAIN segs :
            /\ CXL(segs[k].stat) <=> CancelledCode(segs[k].stat)
            /\ OK(segs[k].stat) <=> ActiveCode(segs[k].stat)
            /\ ~(CXL(segs[k].stat) /\ OK(segs[k].stat))
       /\ \A n \in DOMAIN text.lines :
            RowOfPath(text.lines[n], Result.gds) =>
              \E k \in DOMAIN segs : SameSegment(segs[k], SegDict(text.lines[n]))
       /\ PairedChange(Result) =>
            \E i, j \in DOMAIN segs :
              /\ CancelledCode(segs[i].stat) /\ ActiveCode(segs[j].stat)
              /\ IsChangeOf(ScOf(Result), segs, i, j)

\* a neither-class segment on the key of a paired change
C19_Witness ==
  /\ Returned /\ PairedChange(Result)
  /\ \E k \in DOMAIN Result.segments :
       /\ ~CancelledCode(Result.segments[k].stat)
       /\ ~ActiveCode(Result.segments[k].stat)
       /\ Result.segments[k].date = ScOf(Result).date
       /\ Result.segments[k].orig = ScOf(Result).orig
       /\ Result.segments[k].dest = ScOf(Result).dest

SetsOnce == pc = "once"
SetsRepeated == pc = "repeated"

\* ascending without repeats, and no two elements equal up to letter case
NormalisedSet(xs) ==
  /\ \A k \in 1..(Len(xs) - 1) : StrLess(xs[k], xs[k + 1])
  /\ \A i, j \in DOMAIN xs : i # j => UpperStr(xs[i]) # UpperStr(xs[j])

NormalisedSets(o) ==
  /\ NormalisedSet(o.status_codes)
  /\ NormalisedSet(o.endorsement_signatures)
  /\ NormalisedSet(o.issue_tokens)
  /\ NormalisedSet(o.reason_codes)

\* C15: every set-valued field of a result (status_codes,
\* endorsement_signatures, issue_tokens, reason_codes) is in ascending order
\* without repeats and has no two elements that differ only in letter case.
C15_SetsNormalised ==
  /\ IsSet(out) => NormalisedSets(Val(out))
  /\ IsSet(ret) => NormalisedSets(Val(ret))

SigsOnce == Val(out).endorsement_signatures
SigsRepeated == Val(ret).endorsement_signatures

\* C16: the signature set of "X X" has the cardinality of that of "X".
C16_SetStability == SetsRepeated => Len(SigsRepeated) = Len(SigsOnce)

\* the matches of the signature patterns in "X X" that take in the blank
\* between the two copies
JunctionMatches ==
  { SubSeq(arg, sp[1], sp[2] - 1) :
      sp \in { q \in UNION {Range(Spans(SigPatterns[n], arg)) : n \in DOMAIN SigPatterns} :
                 q[1] <= Len(text) + 1 /\ Len(text) + 1 < q[2] } }

\* C16 amended: the signature set of "X X" contains that of "X", and the
\* two sets have the same cardinality when no signature pattern matches
\* across the blank between the copies.
C16_SetStabilityAmended ==
  SetsRepeated =>
    /\ Range(SigsOnce) \subseteq Range(SigsRepeated)
    /\ JunctionMatches = {} => Len(SigsRepeated) = Len(SigsOnce)

\* a text with signatures, repeated
C16_Witness ==
  /\ SetsRepeated /\ Len(SigsOnce) >= 2 /\ JunctionMatches = {}
  /\ Len(SigsRepeated) = Len(SigsOnce)

\* a text whose repetition has a signature across the blank
C16_WitnessJunction ==
  /\ SetsRepeated /\ JunctionMatches # {}
  /\ Len(SigsRepeated) > Len(SigsOnce)

\* second departure minus first arrival, increased by 1440 when negative
RefLayover(first, second) ==
  LET gap == Minutes(second.dep) - Minutes(first.arr)
  IN IF gap < 0 THEN gap + 1440 ELSE gap

\* C21: the layover is unset with fewer than two segments; otherwise it is
\* the wrapped gap between the first segment's arrival and the second
\* segment's departure, never negative, whatever segments follow.
C21_LayoverFirstTwo ==
  Returned =>
    LET segs == Result.segments
        lay == Result.layover_minutes
    IN /\ Len(segs) < 2 => lay = None
       /\ (Len(segs) >= 2 /\ IsSet(lay)) =>
            /\ Val(lay) = RefLayover(segs[1], segs[2])
            /\ Val(lay) >= 0
       /\ (Len(segs) >= 2 /\ Convertible(segs[1].arr) /\ Convertible(segs[2].dep)) =>
            IsSet(lay)

\* some keyword of the set occurs in the upper-cased text
AnyKeyword(t, kws) == LET u == UpperStr(t) IN \E h \in kws : Contains(u, h)

SabreKeywords == {"WETR*", "PCC:", "/DC", "PLT", "FCI"}
AmadeusKeywords == {"TST/", "FA PAX", "NONEND", "INVOL", "FE PAX"}
TravelportKeywords == {"WAIVER:", "ENDORSEMENT:", "WORLDSPAN", "GALILEO", "APOLLO"}

\* g is the dialect of the text t by the priority sabre > amadeus > travelport
GdsByPriority(t, g) ==
  LET sab == AnyKeyword(t, SabreKeywords)
      ama == AnyKeyword(t, AmadeusKeywords)
      trv == AnyKeyword(t, TravelportKeywords)
  IN /\ sab => g = "sabre"
     /\ (~sab /\ ama) => g = "amadeus"
     /\ (~sab /\ ~ama /\ trv) => g = "travelport"
     /\ g = "unknown" =>
          /\ ~sab /\ ~ama /\ ~trv
          /\ ~Search(SigSabre, UpperStr(t)) /\ ~Search(RfCode, UpperStr(t))

\* C22: the dialect is sabre whenever a Sabre keyword occurs, amadeus when
\* an Amadeus keyword and no Sabre keyword occurs, travelport when only
\* Travelport keywords occur, and unknown only when no keyword occurs and no
\* fallback pattern is found.
C22_GdsPriority ==
  /\ SetsOnce => GdsByPriority(text, Val(out).gds)
  /\ SetsRepeated => GdsByPriority(arg, Val(ret).gds)

\* a Sabre and an Amadeus keyword in one text
C22_Witness ==
  /\ SetsOnce /\ Val(out).gds = "sabre"
  /\ AnyKeyword(text, SabreKeywords) /\ AnyKeyword(text, AmadeusKeywords)

\* a Travelport keyword alone
C22_WitnessTravelport ==
  /\ SetsOnce /\ Val(out).gds = "travelport"
  /\ ~AnyKeyword(text, SabreKeywords) /\ ~AnyKeyword(text, AmadeusKeywords)

\* the categories in the order of their declaration
CategoryOrder ==
  <<"schedule_change", "cancellation", "delay", "denied_boarding", "misconnect",
    "weather", "maintenance", "atc", "security", "involuntary">>

CategoryRank(label) == CHOOSE k \in DOMAIN CategoryOrder : CategoryOrder[k] = label

\* the labels and the primary label o gives for the text t
IssueLabels(t, o) ==
  /\ Range(o.issue_tokens) =
       {ISSUE_PATTERNS[k][1] : k \in {n \in DOMAIN ISSUE_PATTERNS :
                                        Search(ISSUE_PATTERNS[n][2], t)}}
  /\ (o.issue_label = None) <=> (o.issue_tokens = <<>>)
  /\ IsSet(o.issue_label) =>
       /\ Val(o.issue_label) \in Range(o.issue_tokens)
       /\ \A l \in Range(o.issue_tokens) :
            CategoryRank(Val(o.issue_label)) <= CategoryRank(l)

\* C23: issue_tokens holds the labels of all matching categories, and the
\* primary label is the first matching category in the order of declaration,
\* wherever the matches are in the text; it is unset exactly when there is
\* no label, and otherwise one of the labels.
C23_PrimaryLabel ==
  /\ SetsOnce => IssueLabels(text, Val(out))
  /\ SetsRepeated => IssueLabels(arg, Val(ret))

\* the later category first in the text
C23_Witness ==
  /\ SetsOnce /\ Contains(text, "DELAY CXL")
  /\ Val(out).issue_label = Some("cancellation")
  /\ Len(Val(out).issue_tokens) = 2

\* r"\b(WAIVER|ENDORSEMENT|APPROVAL)\b"
GenericKeyword == Word(<<Lit("WAIVER"), Lit("ENDORSEMENT"), Lit("APPROVAL")>>)

SignedOffRule(t, o) ==
  o.airline_signed_off <=>
    \/ o.endorsement_signatures # <<>>
    \/ Search(SigSabre, UpperStr(t)) \/ Search(SignoffWaiver, UpperStr(t))
    \/ Search(GenericKeyword, UpperStr(t))

\* C24: airline_signed_off is true exactly when there is a signature, or a
\* direct waiver pattern, or a WAIVER, ENDORSEMENT or APPROVAL keyword in
\* the text.
C24_SignedOff ==
  /\ SetsOnce => SignedOffRule(text, Val(out))
  /\ SetsRepeated => SignedOffRule(arg, Val(ret))

\* C26: parse_pnr_text("") returns, with the set-valued fields and the
\* segments empty, schedule_change and issue_date_iso unset and the
\* eligibility and sign-off flags false.
C26_EmptyInput ==
  (text = "" /\ pc # "call") =>
    /\ pc \in {"once", "repeated"}
    /\ Val(out).status_codes = <<>>
    /\ Val(out).endorsement_signatures = <<>>
    /\ Val(out).issue_tokens = <<>>
    /\ Val(out).reason_codes = <<>>
    /\ Val(out).segments = <<>>
    /\ Val(out).schedule_change = None
    /\ Val(out).issue_date_iso = None
    /\ ~Val(out).inv_ref_eligibility_3h
    /\ ~Val(out).airline_signed_off

\* the empty text, parsed
C26_Witness == SetsOnce /\ text = "" /\ IsSet(out)

\* the date of the issue-date token of the text, if it is a calendar date
IssueDateOf(t) ==
  LET tok == IF IsSet(t.issued) THEN t.issued ELSE t.dt
  IN IF tok = None THEN None ELSE Parse_issued_date_token(Val(tok))

\* whole days from the date dt (at midnight) to the reading now
WholeDaysSince(now, dt) == Ordinal(now.y, now.m, now.d) - Ordinal(dt.y, dt.m, dt.d)

\* whole days from the reading now to the date one year after dt, not below 0
WholeDaysUntilExpiry(now, dt) ==
  LET dates == Ordinal(dt.y + 1, dt.m, dt.d) - Ordinal(now.y, now.m, now.d)
  IN IF dates <= 0 THEN 0
     ELSE IF now.late THEN dates - 1 ELSE dates

\* C25: with an issue date, time_since_issue_days is the whole days from the
\* issue date to now and time_until_expiration_days the whole days from now
\* to the issue date plus one year, not below 0; it is never negative.
C25_IssueDateDays ==
  Returned =>
    /\ IsSet(Result.time_until_expiration_days) =>
         Val(Result.time_until_expiration_days) >= 0
    /\ IsSet(Result.issue_date_iso) =>
         \E now1, now2 \in Clock :
           /\ ClockLE(now1, now2)
           /\ Result.time_since_issue_days =
                Some(WholeDaysSince(now1, Val(Result.issue_date_iso)))
           /\ Result.time_until_expiration_days =
                Some(WholeDaysUntilExpiry(now2, Val(Result.issue_date_iso)))

\* an issue date more than a year old: the difference is clamped
C25_Witness ==
  /\ Returned /\ IsSet(Result.issue_date_iso)
  /\ Val(Result.time_since_issue_days) > 366
  /\ Result.time_until_expiration_days = Some(0)

\* a day of the remaining time not yet complete
C25_WitnessPartDay ==
  /\ Returned /\ IsSet(Result.issue_date_iso)
  /\ Val(Result.time_until_expiration_days) > 0
  /\ \E now \in Clock :
       /\ now.late
       /\ Val(Result.time_until_expiration_days)
            = DaysUntilExpiryByDate(now, Val(Result.issue_date_iso)) - 1

\* C28: issue_date_raw, issue_date_iso, time_since_issue_days and
\* time_until_expiration_days are set together, exactly when the first
\* issue-date token found is a calendar date; an ISSUED token that is no date
\* leaves all four unset, the DT token unused.
C28_IssueFieldsTogether ==
  Returned =>
    LET valid == IsSet(IssueDateOf(text))
    IN /\ IsSet(Result.issue_date_raw) <=> valid
       /\ IsSet(Result.issue_date_iso) <=> valid
       /\ IsSet(Result.time_since_issue_days) <=> valid
       /\ IsSet(Result.time_until_expiration_days) <=> valid
       /\ valid => Result.issue_date_iso = IssueDateOf(text)

\* an ISSUED token that is no date, and a DT token that is one
C28_Witness ==
  /\ Returned
  /\ IsSet(text.issued) /\ Parse_issued_date_token(Val(text.issued)) = None
  /\ IsSet(text.dt) /\ IsSet(Parse_issued_date_token(Val(text.dt)))
  /\ Result.issue_date_raw = None /\ Result.issue_date_iso = None

BothDone == pc = "both_done"

\* C27: for every 12-hour token of three or four digits and A or P,
\* _time_token_to_minutes and _to_minutes_any return the same minutes.
C27_NormalizersAgree ==
  (BothDone /\ Len(arg.ds) \in {3, 4} /\ arg.sfx \in {"A", "P"}) =>
    /\ IsSet(ret) /\ IsSet(out)
    /\ out = ret

\* a token of three digits
C27_Witness ==
  /\ BothDone /\ Len(arg.ds) = 3 /\ arg.sfx = "P"
  /\ IsSet(out) /\ out = ret


\* the call that has just returned
LastCall == arg[Len(arg)]

EmailDir ==
  "emails/"
    \o (IF LastCall.thread_id \notin {None, Some("")}
          THEN Val(LastCall.thread_id) ELSE LastCall.subject)
    \o "/"

StartsWith(str, prefix) ==
  Len(str) >= Len(prefix) /\ SubSeq(str, 1, Len(prefix)) = prefix

C29_WitnessUnavailable ==
  /\ pc = "returned" /\ Len(arg) = 1
  /\ LastCall.sender.does = "unavailable"
  /\ LastCall.thread_id = None /\ LastCall.subject = "S1"
  /\ Len(out) = 2


\* the index of the directory never holds a key twice
IndexNoDuplicate ==
  (~Read_raises(store, Index_key(text))
     /\ Read_json(store, Index_key(text)).kind = "list")
    => NoDuplicate(Read_json(store, Index_key(text)).items)

BothCompleted == \A p \in Procs : pc[p] = "done"

\* C30: the fallback index never contains a key twice, and once two calls of
\* _index_add with distinct keys on one directory have both completed,
\* however their reads and writes interleave, the index contains both keys.
C30_NoLostUpdate ==
  /\ IndexNoDuplicate
  /\ (BothCompleted /\ arg[1] # arg[2]) =>
       \A p \in Procs : InSeq(arg[p], Index_list(store, text))

====
